---- MODULE Spec2Model ----
(***************************************************************************)
(* State-machine model of install_opencv.py: the command-line helper that  *)
(* optionally installs prerequisites, asks for confirmation, clones and    *)
(* checks out OpenCV, configures the build with cmake, builds and installs.*)
(*                                                                         *)
(* A Python str is modelled as a sequence of pieces: a piece is either the *)
(* whitespace character " " or a whitespace-free fragment.  Text(s) is the *)
(* str itself (what print shows), Split(s) is str.split().  A path is the  *)
(* sequence of its components below "/".                                   *)
(***************************************************************************)
EXTENDS Integers, Sequences, FiniteSets, TLC

VARIABLES args, pc, proceed, dirs, cwd, fs, optfile, build_options,
          trace, status, term

vars == <<args, pc, proceed, dirs, cwd, fs, optfile, build_options,
          trace, status, term>>

-----------------------------------------------------------------------------
(* Bounds of the model *)

MaxInputLen == 2
MaxOpts == 2

-----------------------------------------------------------------------------
(* Strings *)

IsSpace(c) == c = " "

RECURSIVE Text(_)
Text(s) == IF Len(s) = 0 THEN "" ELSE Head(s) \o Text(Tail(s))

RECURSIVE SplitFrom(_, _, _)
SplitFrom(s, cur, acc) ==
  IF Len(s) = 0
    THEN (IF cur = "" THEN acc ELSE Append(acc, cur))
    ELSE IF IsSpace(Head(s))
           THEN SplitFrom(Tail(s), "", IF cur = "" THEN acc ELSE Append(acc, cur))
           ELSE SplitFrom(Tail(s), cur \o Head(s), acc)

Split(s) == SplitFrom(s, "", <<>>)

Lower(c) == IF c = "Y" THEN "y" ELSE IF c = "N" THEN "n" ELSE c

BoolText(b) == IF b THEN "True" ELSE "False"

RECURSIVE PathJoin(_)
PathJoin(p) == IF Len(p) = 0 THEN "" ELSE "/" \o Head(p) \o PathJoin(Tail(p))

PathText(p) == IF Len(p) = 0 THEN "/" ELSE PathJoin(p)

RECURSIVE RelText(_)
RelText(p) ==
  IF Len(p) = 0 THEN ""
  ELSE IF Len(p) = 1 THEN Head(p) ELSE Head(p) \o "/" \o RelText(Tail(p))

ArgPathText(p) == IF p.abs THEN PathText(p.parts) ELSE RelText(p.parts)

-----------------------------------------------------------------------------
(* Paths *)

RECURSIVE NormFrom(_, _)
NormFrom(parts, acc) ==
  IF Len(parts) = 0 THEN acc
  ELSE IF Head(parts) = "." THEN NormFrom(Tail(parts), acc)
  ELSE IF Head(parts) = ".."
         THEN NormFrom(Tail(parts),
                       IF Len(acc) = 0 THEN acc ELSE SubSeq(acc, 1, Len(acc) - 1))
         ELSE NormFrom(Tail(parts), Append(acc, Head(parts)))

realpath(p, from) == NormFrom(IF p.abs THEN p.parts ELSE from \o p.parts, <<>>)

join(p, name) == Append(p, name)

Ancestors(p) == { SubSeq(p, 1, n) : n \in 0..Len(p) }

StartCwd == <<"home", "user">>

-----------------------------------------------------------------------------
(* Program constants *)

(* the defaults with the first two entries in the other order *)
DEFAULT_BUILD_OPTIONS_Reordered ==
  << << <<"CMAKE_INSTALL_PREFIX">>,    <<"/usr/local">> >>,
     << <<"CMAKE_BUILD_TYPE">>,        <<"RELEASE">> >>,
     << <<"INSTALL_C_EXAMPLES">>,      <<"OFF">> >>,
     << <<"INSTALL_PYTHON_EXAMPLES">>, <<"OFF">> >>,
     << <<"BUILD_OPENCV_PYTHON2">>,    <<"ON">> >>,
     << <<"PYTHON2_INCLUDE_DIR">>,     <<"/usr/include/python2.7">> >>,
     << <<"BUILD_EXAMPLES">>,          <<"OFF">> >> >>

DEFAULT_BUILD_OPTIONS ==
  << << <<"CMAKE_BUILD_TYPE">>,        <<"RELEASE">> >>,
     << <<"CMAKE_INSTALL_PREFIX">>,    <<"/usr/local">> >>,
     << <<"INSTALL_C_EXAMPLES">>,      <<"OFF">> >>,
     << <<"INSTALL_PYTHON_EXAMPLES">>, <<"OFF">> >>,
     << <<"BUILD_OPENCV_PYTHON2">>,    <<"ON">> >>,
     << <<"PYTHON2_INCLUDE_DIR">>,     <<"/usr/include/python2.7">> >>,
     << <<"BUILD_EXAMPLES">>,          <<"OFF">> >> >>

CloneCmd == <<"git", " ", "clone", " ", "https://github.com/Itseez/opencv.git">>

CheckoutCmd(tag) == <<"git", " ", "checkout", " ", "tags/">> \o tag

MakeCmd == <<"make", " ", "-j", " ", "3">>

MakeInstallCmd == <<"sudo", " ", "make", " ", "install">>

LdconfigCmd == <<"sudo", " ", "ldconfig">>

AptUpdateCmd == <<"sudo", " ", "apt-get", " ", "update">>

AptUpgradeCmd == <<"sudo", " ", "apt-get", " ", "upgrade">>

AptInstallCmd ==
  <<"sudo", " ", "apt-get", " ", "install", " ", "build-essential", " ",
    "cmake", " ", "git", " ", "pkg-config", " ", "libjpeg8-dev", " ",
    "libjasper-dev", " ", "libpng12-dev", " ", "libgtk2.0-dev", " ",
    "libavcodec-dev", " ", "libavformat-dev", " ", "libswscale-dev", " ",
    "libv4l-dev", " ", "libatlas-base-dev", " ", "gfortran", " ",
    "python-dev", " ", "python-numpy", " ", "python3-dev", " ",
    "python3-numpy">>

(* "-D {}={} ".format(arg, val), appended for every item in order *)
RECURSIVE ArgsString(_)
ArgsString(opts) ==
  IF Len(opts) = 0 THEN <<>>
  ELSE <<"-D", " ">> \o Head(opts)[1] \o <<"=">> \o Head(opts)[2] \o <<" ">>
       \o ArgsString(Tail(opts))

(* 'cmake {} ..'.format(args_string) *)
CmakeCall(opts) == <<"cmake", " ">> \o ArgsString(opts) \o <<" ", "..">>

(* exit statuses of the interpreter *)
Running == -1
ExitNormal == 0
ExitSysExit == 0
ExitUncaught == 1

-----------------------------------------------------------------------------
(* Inputs of the model *)

Tags == { <<"3.3.1">>, <<"4.0.0">> }

BuildDirs == { [abs |-> TRUE,  parts |-> StartCwd],
               [abs |-> TRUE,  parts |-> <<"tmp", "x">>],
               [abs |-> FALSE, parts |-> <<".", "work">>] }

OptionFiles == { [abs |-> FALSE, parts |-> <<>>],
                 [abs |-> TRUE,  parts |-> <<"tmp", "opts.json">>] }

InputChars == {"y", "Y", "n", " "}

Lines == UNION { [1..n -> InputChars] : n \in 0..MaxInputLen }

OptKeys == { <<"WITH_QT">>, <<"BUILD_TESTS">>, <<"CMAKE_CXX_FLAGS">> }

OptVals == { <<"ON">>, <<"-O2", " ", "-g">> }

DistinctKeys(m) == \A i, j \in 1..Len(m) : m[i][1] = m[j][1] => i = j

Mappings ==
  { m \in UNION { [1..n -> OptKeys \X OptVals] : n \in 0..MaxOpts } :
      DistinctKeys(m) }

-----------------------------------------------------------------------------
(* Events: what the process does to the terminal, the working directory,   *)
(* the filesystem and child processes, in order.                           *)

Ev(op, text, argv, ok) == [op |-> op, text |-> text, argv |-> argv, ok |-> ok]

print(t, text) == Append(t, Ev("print", text, <<>>, TRUE))

(* call(command): print(command); subprocess.call(command.split()) *)
call(t, command) == Append(t, Ev("call", Text(command), Split(command), TRUE))

(* a chdir that never reports failure *)
ChdirOkAlways(dirpath, files) == TRUE

(* os.chdir(dirpath) succeeds when the directory exists *)
ChdirOk(dirpath, files) == dirpath \in files

(* chdir(dirpath): the trace after the attempt *)
chdir(t, dirpath, files) ==
  IF ChdirOk(dirpath, files)
    THEN Append(t, Ev("chdir", PathText(dirpath), <<>>, TRUE))
    ELSE print(print(Append(t, Ev("chdir", PathText(dirpath), <<>>, FALSE)),
                     "ERROR: Couldn't chdir into " \o PathText(dirpath)
                       \o ". Exiting."),
               "<traceback>")

-----------------------------------------------------------------------------
(* Initial state: the parsed command line and the filesystem found *)

Configurations ==
  [tag : Tags, force : BOOLEAN, build_dir : BuildDirs, prereqs : BOOLEAN,
   build_options_file : OptionFiles]

BaseDirs == Ancestors(StartCwd) \cup Ancestors(<<"tmp">>)

InitialFilesystems(root) ==
  { BaseDirs,
    BaseDirs \cup Ancestors(root),
    BaseDirs \cup Ancestors(join(root, "opencv")),
    BaseDirs \cup Ancestors(join(join(root, "opencv"), "build")) }

NoDirs == [root |-> <<>>, opencv |-> <<>>, build |-> <<>>]

NoOptfile == [checked |-> FALSE, exists |-> FALSE, valid |-> TRUE, mapping |-> <<>>]

Init ==
  /\ args \in Configurations
  /\ pc = "main"
  /\ proceed = <<>>
  /\ dirs = NoDirs
  /\ cwd = StartCwd
  /\ fs \in InitialFilesystems(realpath(args.build_dir, StartCwd))
  /\ optfile = NoOptfile
  /\ build_options = <<>>
  /\ trace = <<>>
  /\ status = Running
  /\ term = "running"

-----------------------------------------------------------------------------
(* __main__ *)

main ==
  /\ pc = "main"
  /\ pc' = IF args.prereqs = TRUE THEN "install_prereqs" ELSE "install_opencv"
  /\ UNCHANGED <<args, proceed, dirs, cwd, fs, optfile, build_options,
                 trace, status, term>>

install_prereqs ==
  /\ pc = "install_prereqs"
  /\ trace' = call(call(call(print(trace, "Installing prerequisites..."),
                             AptUpdateCmd), AptUpgradeCmd), AptInstallCmd)
  /\ pc' = "install_opencv"
  /\ UNCHANGED <<args, proceed, dirs, cwd, fs, optfile, build_options,
                 status, term>>

-----------------------------------------------------------------------------
(* install_opencv *)

PrintOptions(t, a) ==
  print(print(print(print(print(print(print(t,
    "\nSelected installation options: "),
    "tag: " \o Text(a.tag)),
    "force: " \o BoolText(a.force)),
    "build_dir: " \o ArgPathText(a.build_dir)),
    "prereqs: " \o BoolText(a.prereqs)),
    "build_options_file: " \o ArgPathText(a.build_options_file)),
    "\n")

install_opencv ==
  /\ pc = "install_opencv"
  /\ trace' = PrintOptions(trace, args)
  /\ pc' = "gate"
  /\ UNCHANGED <<args, proceed, dirs, cwd, fs, optfile, build_options,
                 status, term>>

(* a gate that asks whatever force is *)
NeedsConfirmAlways(a) == TRUE

(* if not args.force *)
NeedsConfirm(a) == ~a.force

(* proceed[0] raises IndexError on the empty line *)
GateRaises(line) == Len(line) = 0

(* a gate that only stops on n or N *)
GateProceedsNotN(line) == Lower(line[1]) # "n"

(* a gate that compares without lower() *)
GateProceedsCaseSensitive(line) == line[1] = "y"

(* proceed[0].lower() != 'y' is false *)
GateProceeds(line) == Lower(line[1]) = "y"

Prompt(t) == Append(t, Ev("prompt", "Proceed with the installation? ", <<>>, TRUE))

gate ==
  /\ pc = "gate"
  /\ IF ~NeedsConfirm(args)
       THEN /\ pc' = "compute_dirs"
            /\ UNCHANGED <<proceed, trace, status, term>>
       ELSE \/ (* input() raises EOFError outside the try block *)
               /\ trace' = print(Append(Prompt(trace),
                                        Ev("input", "", <<>>, FALSE)),
                                 "<traceback>")
               /\ pc' = "done"
               /\ status' = ExitUncaught
               /\ term' = "uncaught"
               /\ UNCHANGED proceed
            \/ \E line \in Lines :
                 /\ proceed' = line
                 /\ IF GateRaises(line)
                      THEN /\ trace' = print(print(Append(Prompt(trace),
                                  Ev("input", Text(line), <<>>, TRUE)),
                                  "Exiting (exception)"), "<traceback>")
                           /\ pc' = "done"
                           /\ status' = ExitNormal
                           /\ term' = "abort"
                      ELSE IF ~GateProceeds(line)
                      THEN /\ trace' = print(Append(Prompt(trace),
                                  Ev("input", Text(line), <<>>, TRUE)),
                                  "Exiting.")
                           /\ pc' = "done"
                           /\ status' = ExitNormal
                           /\ term' = "abort"
                      ELSE /\ trace' = Append(Prompt(trace),
                                  Ev("input", Text(line), <<>>, TRUE))
                           /\ pc' = "compute_dirs"
                           /\ UNCHANGED <<status, term>>
  /\ UNCHANGED <<args, dirs, cwd, fs, optfile, build_options>>

compute_dirs ==
  /\ pc = "compute_dirs"
  /\ dirs' = [root   |-> realpath(args.build_dir, cwd),
              opencv |-> join(realpath(args.build_dir, cwd), "opencv"),
              build  |-> join(join(realpath(args.build_dir, cwd), "opencv"),
                              "build")]
  /\ pc' = "ds_chdir_root"
  /\ UNCHANGED <<args, proceed, cwd, fs, optfile, build_options,
                 trace, status, term>>

-----------------------------------------------------------------------------
(* download_source *)

(* the control state after chdir(dirpath): sys.exit() when it failed *)
AfterChdir(dirpath, next) ==
  IF ChdirOk(dirpath, fs)
    THEN /\ cwd' = dirpath
         /\ pc' = next
         /\ UNCHANGED <<status, term>>
    ELSE /\ pc' = "done"
         /\ status' = ExitSysExit
         /\ term' = "fatal_chdir"
         /\ UNCHANGED cwd

ds_chdir_root ==
  /\ pc = "ds_chdir_root"
  /\ trace' = chdir(print(trace, "Downloading source..."), dirs.root, fs)
  /\ AfterChdir(dirs.root, "ds_clone")
  /\ UNCHANGED <<args, proceed, dirs, fs, optfile, build_options>>

(* git clone: its exit status is not inspected; it may or may not leave   *)
(* the opencv directory behind                                            *)
ds_clone ==
  /\ pc = "ds_clone"
  /\ trace' = call(trace, CloneCmd)
  /\ \E cloned \in BOOLEAN :
       fs' = IF cloned THEN fs \cup {dirs.opencv} ELSE fs
  /\ pc' = "ds_chdir_opencv"
  /\ UNCHANGED <<args, proceed, dirs, cwd, optfile, build_options,
                 status, term>>

ds_chdir_opencv ==
  /\ pc = "ds_chdir_opencv"
  /\ trace' = chdir(trace, dirs.opencv, fs)
  /\ AfterChdir(dirs.opencv, "ds_checkout")
  /\ UNCHANGED <<args, proceed, dirs, fs, optfile, build_options>>

ds_checkout ==
  /\ pc = "ds_checkout"
  /\ trace' = call(trace, CheckoutCmd(args.tag))
  /\ pc' = "ds_chdir_back"
  /\ UNCHANGED <<args, proceed, dirs, cwd, fs, optfile, build_options,
                 status, term>>

ds_chdir_back ==
  /\ pc = "ds_chdir_back"
  /\ trace' = chdir(trace, dirs.root, fs)
  /\ AfterChdir(dirs.root, "cb_makedirs")
  /\ UNCHANGED <<args, proceed, dirs, fs, optfile, build_options>>

-----------------------------------------------------------------------------
(* configure_build *)

cb_makedirs ==
  /\ pc = "cb_makedirs"
  /\ IF dirs.build \in fs
       THEN (* FileExistsError: pass *)
            /\ trace' = Append(trace, Ev("makedirs", PathText(dirs.build), <<>>, FALSE))
            /\ pc' = "cb_chdir"
            /\ UNCHANGED <<fs, status, term>>
       ELSE \/ /\ trace' = Append(trace, Ev("makedirs", PathText(dirs.build), <<>>, TRUE))
               /\ fs' = fs \cup Ancestors(dirs.build)
               /\ pc' = "cb_chdir"
               /\ UNCHANGED <<status, term>>
            \/ (* any other error: diagnostic and sys.exit() *)
               /\ trace' = print(print(Append(trace,
                              Ev("makedirs", PathText(dirs.build), <<>>, FALSE)),
                              "ERROR: Couldn't create the build directory. Exiting."),
                              "<traceback>")
               /\ pc' = "done"
               /\ status' = ExitSysExit
               /\ term' = "fatal_makedirs"
               /\ UNCHANGED fs
  /\ UNCHANGED <<args, proceed, dirs, cwd, optfile, build_options>>

cb_chdir ==
  /\ pc = "cb_chdir"
  /\ trace' = chdir(trace, dirs.build, fs)
  /\ AfterChdir(dirs.build, "cb_load")
  /\ UNCHANGED <<args, proceed, dirs, fs, optfile, build_options>>

(* os.path.exists(path): the empty path never exists *)
exists(path, ondisk) == IF ~path.abs /\ Len(path.parts) = 0 THEN FALSE ELSE ondisk

(* build_options = {} unless the file exists, then json.load(fp) *)
LoadedOptions(of) == IF of.exists THEN of.mapping ELSE <<>>

(* a loader without the fallback to the defaults *)
EffectiveOptionsNoFallback(loaded) == loaded

(* if len(build_options) == 0: build_options = DEFAULT_BUILD_OPTIONS *)
EffectiveOptions(loaded) ==
  IF Len(loaded) = 0 THEN DEFAULT_BUILD_OPTIONS ELSE loaded

cb_load ==
  /\ pc = "cb_load"
  /\ \E ondisk \in BOOLEAN, valid \in BOOLEAN, m \in Mappings :
       /\ ~exists(args.build_options_file, ondisk) => (valid /\ m = <<>>)
       /\ ~valid => m = <<>>
       /\ optfile' = [checked |-> TRUE,
                      exists |-> exists(args.build_options_file, ondisk),
                      valid |-> valid, mapping |-> m]
  /\ IF optfile'.valid
       THEN /\ build_options' = EffectiveOptions(LoadedOptions(optfile'))
            /\ pc' = "cb_cmake"
            /\ UNCHANGED <<trace, status, term>>
       ELSE (* json.load raises: uncaught *)
            /\ trace' = print(trace, "<traceback>")
            /\ pc' = "done"
            /\ status' = ExitUncaught
            /\ term' = "uncaught"
            /\ UNCHANGED build_options
  /\ UNCHANGED <<args, proceed, dirs, cwd, fs>>

RECURSIVE PrintItems(_, _)
PrintItems(t, opts) ==
  IF Len(opts) = 0 THEN t
  ELSE PrintItems(print(t, Text(Head(opts)[1]) \o ": " \o Text(Head(opts)[2])),
                  Tail(opts))

cb_cmake ==
  /\ pc = "cb_cmake"
  /\ trace' = call(print(PrintItems(print(trace,
                     "Building OpenCV with the following options:"),
                     build_options), "\n"),
                   CmakeCall(build_options))
  /\ pc' = "build"
  /\ UNCHANGED <<args, proceed, dirs, cwd, fs, optfile, build_options,
                 status, term>>

-----------------------------------------------------------------------------
(* build and install *)

build ==
  /\ pc = "build"
  /\ trace' = IF ChdirOk(dirs.build, fs)
                THEN call(chdir(trace, dirs.build, fs), MakeCmd)
                ELSE chdir(trace, dirs.build, fs)
  /\ AfterChdir(dirs.build, "install")
  /\ UNCHANGED <<args, proceed, dirs, fs, optfile, build_options>>

install ==
  /\ pc = "install"
  /\ trace' = IF ChdirOk(dirs.build, fs)
                THEN call(call(chdir(trace, dirs.build, fs), MakeInstallCmd),
                          LdconfigCmd)
                ELSE chdir(trace, dirs.build, fs)
  /\ IF ChdirOk(dirs.build, fs)
       THEN /\ cwd' = dirs.build
            /\ pc' = "done"
            /\ status' = ExitNormal
            /\ term' = "return"
       ELSE /\ pc' = "done"
            /\ status' = ExitSysExit
            /\ term' = "fatal_chdir"
            /\ UNCHANGED cwd
  /\ UNCHANGED <<args, proceed, dirs, fs, optfile, build_options>>

-----------------------------------------------------------------------------

Next ==
  \/ main
  \/ install_prereqs
  \/ install_opencv
  \/ gate
  \/ compute_dirs
  \/ ds_chdir_root
  \/ ds_clone
  \/ ds_chdir_opencv
  \/ ds_checkout
  \/ ds_chdir_back
  \/ cb_makedirs
  \/ cb_chdir
  \/ cb_load
  \/ cb_cmake
  \/ build
  \/ install

Spec == Init /\ [][Next]_vars

TypeOK ==
  /\ args \in Configurations
  /\ proceed \in Lines
  /\ status \in {Running, ExitNormal, ExitUncaught}
  /\ term \in {"running", "return", "abort", "fatal_chdir", "fatal_makedirs",
               "uncaught"}
  /\ (pc = "done") = (status # Running)

-----------------------------------------------------------------------------
(* Vocabulary of the properties *)

Indices == 1..Len(trace)

IsMutation(e) == e.op = "call" \/ (e.op = "makedirs" /\ e.ok)

IsStageEffect(e) == e.op \in {"call", "chdir", "makedirs"}

InputAttempted == \E i \in Indices : trace[i].op = "input"

InputRead == \E i \in Indices : trace[i].op = "input" /\ trace[i].ok

Prompted == \E i \in Indices : trace[i].op \in {"prompt", "input"}

(* nothing but diagnostics follows the read of the confirmation *)
NothingAfterInput ==
  \A i, j \in Indices :
    (trace[i].op = "input" /\ i < j) => trace[j].op = "print"

ReachedSourceFetcher ==
  \E i \in Indices : trace[i].op = "print" /\ trace[i].text = "Downloading source..."

IsPipelineCall(e) ==
  /\ e.op = "call"
  /\ \/ e.argv[1] \in {"git", "cmake", "make"}
     \/ (e.argv[1] = "sudo" /\ e.argv[2] \in {"make", "ldconfig"})

Calls == SelectSeq(trace, LAMBDA e : e.op = "call")

CallTexts == [i \in 1..Len(Calls) |-> Calls[i].text]

CallArgvs == [i \in 1..Len(Calls) |-> Calls[i].argv]

RECURSIVE LStrip(_)
LStrip(s) == IF Len(s) > 0 /\ IsSpace(Head(s)) THEN LStrip(Tail(s)) ELSE s

TrimmedFirstIsY(line) ==
  Len(LStrip(line)) > 0 /\ LStrip(line)[1] \in {"y", "Y"}

RawFirstIsY(line) == Len(line) > 0 /\ line[1] \in {"y", "Y"}

Terminated == pc = "done"

-----------------------------------------------------------------------------
(* C1: with force = false, whatever prereqs is, no external command is     *)
(* invoked and no directory is created before the user has answered the    *)
(* confirmation prompt.                                                    *)
C1_ConfirmationPrecedesEveryMutation ==
  ~args.force =>
    \A i \in Indices :
      IsMutation(trace[i]) =>
        \E j \in 1..(i - 1) : trace[j].op = "input" /\ trace[j].ok

(* C2: with force = false, a line whose first trimmed character is not y   *)
(* or Y makes install_opencv return: nothing but the farewell message      *)
(* follows the read, and the process ends by normal return with status 0.  *)
C2_NonYesLineAborts ==
  (~args.force /\ InputRead /\ ~TrimmedFirstIsY(proceed)) =>
    /\ Terminated
    /\ term = "abort"
    /\ status = 0
    /\ NothingAfterInput
    /\ ~ReachedSourceFetcher

C2_Witness ==
  /\ ~args.force /\ args.prereqs /\ InputRead
  /\ proceed = <<" ", "n">>
  /\ Terminated

(* C3: with force = false, an empty line or a failed read of the input     *)
(* aborts cleanly: early return, nothing after the gate, exit status 0.    *)
C3_EmptyOrFailedReadAbortsCleanly ==
  (~args.force /\ \E i \in Indices :
       trace[i].op = "input" /\ (~trace[i].ok \/ trace[i].text = "")) =>
    /\ Terminated
    /\ status = 0
    /\ ~ReachedSourceFetcher
    /\ \A i, j \in Indices :
         (trace[i].op = "input" /\ i < j) => ~IsStageEffect(trace[j])

(* C4: with force = true no prompt is issued and no input is read at any   *)
(* point, and the options listing is followed at once by the Source        *)
(* Fetcher.                                                                *)
C4_ForceNeverReadsInput ==
  args.force =>
    /\ ~Prompted
    /\ proceed = <<>>
    /\ \/ pc \in {"main", "install_prereqs", "install_opencv", "gate",
                  "compute_dirs", "ds_chdir_root"}
       \/ ReachedSourceFetcher
    /\ \A i \in Indices :
         (trace[i].op = "print" /\ trace[i].text = "Downloading source...")
           => (trace[i - 1].op = "print" /\ trace[i - 1].text = "\n")

C4_Witness == args.force /\ term = "return" /\ Len(Calls) >= 6

(* C5: if the root directory does not exist when the Source Fetcher enters *)
(* it, the process terminates and no clone, checkout, cmake, make, install *)
(* or ldconfig command is ever invoked.                                    *)
C5_MissingRootStopsBeforeCommands ==
  (dirs # NoDirs /\ pc # "ds_chdir_root" /\ dirs.root \notin fs) =>
    /\ Terminated
    /\ term = "fatal_chdir"
    /\ \A i \in Indices : ~IsPipelineCall(trace[i])

C5_Witness ==
  /\ dirs # NoDirs /\ dirs.root \notin fs
  /\ term = "fatal_chdir"
  /\ args.prereqs /\ Len(Calls) = 3

(* C6: a fatal, diagnosed termination (failed chdir, failed creation of    *)
(* the build directory) ends with a non-zero status, while completion and  *)
(* the abort at the gate end with status 0.                                *)
C6_FatalExitStatusIsFailure ==
  /\ term \in {"fatal_chdir", "fatal_makedirs"} => status # 0
  /\ term \in {"return", "abort"} => status = 0

-----------------------------------------------------------------------------
(* The end-to-end scenario: tag 4.0.0, force, build dir /tmp/x, no options *)
(* file, prereqs at its default (true), every directory access succeeding. *)

Scenario ==
  /\ args.tag = <<"4.0.0">>
  /\ args.force
  /\ args.build_dir = [abs |-> TRUE, parts |-> <<"tmp", "x">>]
  /\ args.build_options_file = [abs |-> FALSE, parts |-> <<>>]
  /\ args.prereqs
  /\ term = "return"

PipelineTexts ==
  << "git clone https://github.com/Itseez/opencv.git",
     "git checkout tags/4.0.0",
     "cmake -D CMAKE_BUILD_TYPE=RELEASE -D CMAKE_INSTALL_PREFIX=/usr/local "
       \o "-D INSTALL_C_EXAMPLES=OFF -D INSTALL_PYTHON_EXAMPLES=OFF "
       \o "-D BUILD_OPENCV_PYTHON2=ON -D PYTHON2_INCLUDE_DIR=/usr/include/python2.7 "
       \o "-D BUILD_EXAMPLES=OFF  ..",
     "make -j 3",
     "sudo make install",
     "sudo ldconfig" >>

PipelineArgvs ==
  << <<"git", "clone", "https://github.com/Itseez/opencv.git">>,
     <<"git", "checkout", "tags/4.0.0">>,
     <<"cmake", "-D", "CMAKE_BUILD_TYPE=RELEASE",
                "-D", "CMAKE_INSTALL_PREFIX=/usr/local",
                "-D", "INSTALL_C_EXAMPLES=OFF",
                "-D", "INSTALL_PYTHON_EXAMPLES=OFF",
                "-D", "BUILD_OPENCV_PYTHON2=ON",
                "-D", "PYTHON2_INCLUDE_DIR=/usr/include/python2.7",
                "-D", "BUILD_EXAMPLES=OFF", "..">>,
     <<"make", "-j", "3">>,
     <<"sudo", "make", "install">>,
     <<"sudo", "ldconfig">> >>

PrereqTexts ==
  << "sudo apt-get update",
     "sudo apt-get upgrade",
     "sudo apt-get install build-essential cmake git pkg-config libjpeg8-dev "
       \o "libjasper-dev libpng12-dev libgtk2.0-dev libavcodec-dev "
       \o "libavformat-dev libswscale-dev libv4l-dev libatlas-base-dev gfortran "
       \o "python-dev python-numpy python3-dev python3-numpy" >>

(* C7 as stated: in the scenario the commands printed and invoked are      *)
(* exactly clone, checkout, cmake with the seven defaults, make -j 3,      *)
(* sudo make install, sudo ldconfig, with nothing before, between or       *)
(* after, and no prompt.                                                   *)
C7_ExactlySixCommands ==
  Scenario =>
    /\ CallTexts = PipelineTexts
    /\ CallArgvs = PipelineArgvs
    /\ ~Prompted

(* C7 amended: in the scenario the commands printed and invoked are        *)
(* exactly the three prerequisite commands (apt-get update, upgrade,       *)
(* install of the fixed package list) followed by clone, checkout, cmake   *)
(* with the seven defaults in order, make -j 3, sudo make install, sudo    *)
(* ldconfig, and no prompt is issued.                                      *)
C7_PrereqsThenSixCommands ==
  Scenario =>
    /\ CallTexts = PrereqTexts \o PipelineTexts
    /\ SubSeq(CallArgvs, 4, Len(CallArgvs)) = PipelineArgvs
    /\ \A i \in 1..3 : CallArgvs[i][1] = "sudo" /\ CallArgvs[i][2] = "apt-get"
    /\ ~Prompted

C7_Witness == Scenario /\ Len(Calls) = 9

-----------------------------------------------------------------------------
(* C8 as stated: with force = false the gate decides on the trimmed line:  *)
(* the pipeline proceeds to the Source Fetcher exactly when the first      *)
(* character of the trimmed line is y or Y, and aborts otherwise.          *)
C8_GateDecidesOnTrimmedLine ==
  (~args.force /\ InputRead) =>
    IF TrimmedFirstIsY(proceed)
      THEN term # "abort" /\ (pc \in {"compute_dirs", "ds_chdir_root"} \/ ReachedSourceFetcher)
      ELSE term = "abort" /\ ~ReachedSourceFetcher

(* C8 amended: with force = false the gate decides on the line as read,    *)
(* untrimmed: the pipeline proceeds to the Source Fetcher exactly when the *)
(* first character of the line is y or Y (y and Yes proceed, " y" aborts), *)
(* and aborts for every other line.                                        *)
C8_GateDecidesOnRawLine ==
  (~args.force /\ InputRead) =>
    IF RawFirstIsY(proceed)
      THEN term # "abort" /\ (pc \in {"compute_dirs", "ds_chdir_root"} \/ ReachedSourceFetcher)
      ELSE term = "abort" /\ ~ReachedSourceFetcher

C8_Witness ==
  /\ ~args.force /\ InputRead
  /\ proceed = <<" ", "y">>
  /\ term = "abort"

-----------------------------------------------------------------------------
ExpectedDefaults ==
  << << <<"CMAKE_BUILD_TYPE">>,        <<"RELEASE">> >>,
     << <<"CMAKE_INSTALL_PREFIX">>,    <<"/usr/local">> >>,
     << <<"INSTALL_C_EXAMPLES">>,      <<"OFF">> >>,
     << <<"INSTALL_PYTHON_EXAMPLES">>, <<"OFF">> >>,
     << <<"BUILD_OPENCV_PYTHON2">>,    <<"ON">> >>,
     << <<"PYTHON2_INCLUDE_DIR">>,     <<"/usr/include/python2.7">> >>,
     << <<"BUILD_EXAMPLES">>,          <<"OFF">> >> >>

OptionsDecided == pc \in {"cb_cmake", "build", "install"} \/ term = "return"

(* C9: the option set the Build Configurer uses is never empty: when the   *)
(* options file does not exist (the empty default path never does) or its  *)
(* mapping is empty, it is exactly the seven defaults; when the file holds *)
(* a non-empty mapping it is exactly that mapping, nothing merged in.      *)
C9_EffectiveOptionSet ==
  OptionsDecided =>
    /\ Len(build_options) > 0
    /\ (args.build_options_file = [abs |-> FALSE, parts |-> <<>>]) => ~optfile.exists
    /\ (~optfile.exists \/ Len(optfile.mapping) = 0) => build_options = ExpectedDefaults
    /\ (optfile.exists /\ Len(optfile.mapping) > 0) => build_options = optfile.mapping
    /\ \A i \in Indices :
         (trace[i].op = "call" /\ trace[i].argv[1] = "cmake")
           => trace[i].text = Text(CmakeCall(build_options))

C9_Witness ==
  /\ optfile.checked /\ optfile.exists /\ optfile.valid
  /\ Len(optfile.mapping) = 0
  /\ term = "return"

-----------------------------------------------------------------------------
RECURSIVE FlagTokens(_)
FlagTokens(m) ==
  IF Len(m) = 0 THEN <<>>
  ELSE <<"-D", Text(Head(m)[1]) \o "=" \o Text(Head(m)[2])>> \o FlagTokens(Tail(m))

(* C10: for a non-empty mapping loaded from the options file, the cmake    *)
(* invocation executed carries exactly one -D key=value per entry, in the  *)
(* mapping's order, keys and values verbatim, followed by '..'.            *)
C10_OneFlagPerEntry ==
  (optfile.exists /\ Len(optfile.mapping) > 0) =>
    \A i \in Indices :
      (trace[i].op = "call" /\ trace[i].argv[1] = "cmake")
        => trace[i].argv = <<"cmake">> \o FlagTokens(optfile.mapping) \o <<"..">>

====
